---- MODULE Spec2Model ----
(***************************************************************************)
(* Model of the Pacman dot collector: GameState (src/src/main.rs) and the  *)
(* browser wrapper Game (src/src/lib.rs).                                  *)
(*                                                                         *)
(* Numbers.  Positions, movement vectors and click points are f32 values   *)
(* that are always whole numbers below 2^24, so f32 arithmetic on them is  *)
(* exact and they are modelled as integers.  The mouth angle is an f32     *)
(* that accumulates 0.2, which is not exact: it is modelled as an integer  *)
(* count of 2^-26 (the unit in the last place of 0.2f32) and every sum is  *)
(* rounded to 24 significant bits, ties to even, as f32 addition does.     *)
(***************************************************************************)
EXTENDS Integers, FiniteSets, Sequences, TLC

VARIABLES
    gs,      \* the GameState struct
    pre,     \* the GameState as it was when the last handler was entered
    event,   \* the last handler the host called
    ticks,   \* number of GameState::update calls made so far
    waited   \* ticks that found the last key press's direction still queued

vars == <<gs, pre, event, ticks, waited>>

---------------------------------------------------------------------------
(* Constants of the program *)

GRID_SIZE == 20
CELL_SIZE == 30
PACMAN_SPEED == 5
SCREEN_WIDTH == 800
SCREEN_HEIGHT == 600
\* 0.2f32 = 13421773 * 2^-26
MOUTH_SPEED == 13421773
\* 1.0f32 = 2^26 * 2^-26
MAX_MOUTH_ANGLE == 67108864
\* score += 10
SCORE_PER_DOT == 10

(* Bounds of the model *)

\* ticks explored from each start state
MaxTicks == 12
\* dots still on the board in the late-game start state
LastDots == 2

---------------------------------------------------------------------------
(* f32 addition on multiples of 2^-26 *)

Abs(n) == IF n < 0 THEN -n ELSE n

\* the multiple of u nearest to n, a tie going to the even multiple
RoundTiesEven(n, u) ==
    LET q == n \div u
        r == n % u
    IN  IF 2 * r < u THEN q * u
        ELSE IF 2 * r > u THEN (q + 1) * u
        ELSE IF q % 2 = 0 THEN q * u
        ELSE (q + 1) * u

\* n rounded to an f32: 24 significant bits
F32(n) ==
    IF Abs(n) < 2^24 THEN n
    ELSE IF Abs(n) < 2^25 THEN RoundTiesEven(n, 2)
    ELSE IF Abs(n) < 2^26 THEN RoundTiesEven(n, 4)
    ELSE RoundTiesEven(n, 8)

---------------------------------------------------------------------------
(* Direction and DirectionController *)

None == "None"
Directions == {"Up", "Down", "Left", "Right"}

to_vec2(d) ==
    CASE d = "Up"    -> <<0, -1>>
      [] d = "Down"  -> <<0, 1>>
      [] d = "Left"  -> <<-1, 0>>
      [] d = "Right" -> <<1, 0>>

\* axis_aligned with the tolerance 0.2 / 0.8
axis_aligned_wide(v) ==
    LET r == v % CELL_SIZE
    IN  10 * r < 2 * CELL_SIZE \/ 10 * r > 8 * CELL_SIZE

\* fract(v / CELL_SIZE) < 0.1 || fract(v / CELL_SIZE) > 0.9, for v >= 0.
\* v is a whole number, so the fraction is (v % CELL_SIZE) / CELL_SIZE up to
\* the rounding of the quotient (below 2^-18).  The comparison is therefore
\* exact unless v % CELL_SIZE is 3 or 27, the two remainders that sit on a
\* threshold; the position only ever holds multiples of PACMAN_SPEED.
axis_aligned(v) ==
    LET r == v % CELL_SIZE
    IN  10 * r < CELL_SIZE \/ 10 * r > 9 * CELL_SIZE

\* is_aligned_with_grid with || between the two axes
is_aligned_either_axis(position) ==
    axis_aligned(position[1]) \/ axis_aligned(position[2])

is_aligned_with_grid(position) ==
    axis_aligned(position[1]) /\ axis_aligned(position[2])

queue_direction(s, new_direction) ==
    [s EXCEPT !.queued_direction = new_direction]

\* DirectionController::update that promotes the queued direction but does
\* not clear the queue
controller_update_keeps_queue(s) ==
    IF is_aligned_with_grid(s.pos) /\ s.queued_direction # None
    THEN [s EXCEPT !.current_direction = s.queued_direction]
    ELSE s

\* DirectionController::update that moves the queue into current_direction
\* even when the queue is empty
controller_update_takes_queue(s) ==
    IF is_aligned_with_grid(s.pos)
    THEN [s EXCEPT !.current_direction = s.queued_direction,
                   !.queued_direction = None]
    ELSE s

\* DirectionController::update: the controller's fields after the call
\* (its return value is the new current_direction)
controller_update(s) ==
    IF is_aligned_with_grid(s.pos) /\ s.queued_direction # None
    THEN [s EXCEPT !.current_direction = s.queued_direction,
                   !.queued_direction = None]
    ELSE s

---------------------------------------------------------------------------
(* GameState *)

\* both loops of new() and reset(): x, y in 1..GRID_SIZE-1 exclusive
grid_dots ==
    {<<x * CELL_SIZE, y * CELL_SIZE>> : x \in 1..(GRID_SIZE - 2), y \in 1..(GRID_SIZE - 2)}

new ==
    [ pos               |-> <<CELL_SIZE, (GRID_SIZE * CELL_SIZE) \div 2>>,
      direction         |-> <<0, 0>>,
      size              |-> (CELL_SIZE * 8) \div 10,
      mouth_angle       |-> 0,
      mouth_opening     |-> TRUE,
      dots              |-> grid_dots,
      score             |-> 0,
      queued_direction  |-> None,
      current_direction |-> None,
      game_won          |-> FALSE ]

\* reset that leaves the direction controller as it was
reset_keeps_controller(s) ==
    [s EXCEPT !.dots              = grid_dots,
              !.pos               = <<CELL_SIZE, (GRID_SIZE * CELL_SIZE) \div 2>>,
              !.direction         = <<0, 0>>,
              !.score             = 0,
              !.game_won          = FALSE,
              !.mouth_angle       = 0,
              !.mouth_opening     = TRUE]

\* reset that leaves the score as it was
reset_keeps_score(s) ==
    [s EXCEPT !.dots              = grid_dots,
              !.pos               = <<CELL_SIZE, (GRID_SIZE * CELL_SIZE) \div 2>>,
              !.direction         = <<0, 0>>,
              !.game_won          = FALSE,
              !.queued_direction  = None,
              !.current_direction = None,
              !.mouth_angle       = 0,
              !.mouth_opening     = TRUE]

reset(s) ==
    [s EXCEPT !.dots              = grid_dots,
              !.pos               = <<CELL_SIZE, (GRID_SIZE * CELL_SIZE) \div 2>>,
              !.direction         = <<0, 0>>,
              !.score             = 0,
              !.game_won          = FALSE,
              !.queued_direction  = None,
              !.current_direction = None,
              !.mouth_angle       = 0,
              !.mouth_opening     = TRUE]

\* clamp that only enforces the upper bound
clamp_upper_only(v, lo, hi) == IF v > hi THEN hi ELSE v

\* v.clamp(lo, hi)
clamp(v, lo, hi) == IF v < lo THEN lo ELSE IF v > hi THEN hi ELSE v

\* lines 146-162: direction resolution, movement, clamping
move(s) ==
    LET c   == controller_update(s)
        dir == IF c.current_direction # None
               THEN to_vec2(c.current_direction) ELSE c.direction
        lo  == CELL_SIZE
        hi  == CELL_SIZE * (GRID_SIZE - 1)
    IN  [c EXCEPT !.direction = dir,
                  !.pos = << clamp(c.pos[1] + dir[1] * PACMAN_SPEED, lo, hi),
                             clamp(c.pos[2] + dir[2] * PACMAN_SPEED, lo, hi) >>]

\* in_reach with <= in place of <
in_reach_inclusive(dot, pos) ==
    LET dx == dot[1] - pos[1]
        dy == dot[2] - pos[2]
    IN  4 * (dx * dx + dy * dy) <= CELL_SIZE * CELL_SIZE

\* in_reach that measures the distance along x only
in_reach_x_only(dot, pos) ==
    LET dx == dot[1] - pos[1]
    IN  4 * (dx * dx) < CELL_SIZE * CELL_SIZE

\* (*dot - pos).length() < CELL_SIZE * 0.5.  The squared length is a whole
\* number below 2^24, sqrt is correctly rounded and 15 = sqrt(225) is an f32,
\* so the test is: squared length < (CELL_SIZE / 2)^2.
in_reach(dot, pos) ==
    LET dx == dot[1] - pos[1]
        dy == dot[2] - pos[2]
    IN  4 * (dx * dx + dy * dy) < CELL_SIZE * CELL_SIZE

\* collect with the score taken away instead of added
collect_subtracts(s) ==
    LET kept == {dot \in s.dots : ~in_reach(dot, s.pos)}
    IN  [s EXCEPT !.dots = kept,
                  !.score = s.score - SCORE_PER_DOT * Cardinality(s.dots \ kept)]

\* collect whose closure scores a dot in reach but returns true for it too
collect_keeps_dot(s) ==
    LET kept == {dot \in s.dots : ~in_reach(dot, s.pos)}
    IN  [s EXCEPT !.score = s.score + SCORE_PER_DOT * Cardinality(s.dots \ kept)]

\* lines 164-173: dots.retain, with its score side effect
collect(s) ==
    LET kept == {dot \in s.dots : ~in_reach(dot, s.pos)}
    IN  [s EXCEPT !.dots = kept,
                  !.score = s.score + SCORE_PER_DOT * Cardinality(s.dots \ kept)]

\* check_victory that declares the win one dot early
check_victory_early(s) ==
    IF Cardinality(s.dots) <= 1 THEN [s EXCEPT !.game_won = TRUE] ELSE s

\* lines 175-178: victory condition
check_victory(s) ==
    IF s.dots = {} THEN [s EXCEPT !.game_won = TRUE] ELSE s

\* animate without the test of the movement vector
animate_always(s) ==
    IF s.mouth_opening
    THEN LET a == F32(s.mouth_angle + MOUTH_SPEED)
         IN  [s EXCEPT !.mouth_angle = a,
                       !.mouth_opening =
                           IF a >= MAX_MOUTH_ANGLE THEN FALSE ELSE TRUE]
    ELSE LET a == F32(s.mouth_angle - MOUTH_SPEED)
         IN  [s EXCEPT !.mouth_angle = a,
                       !.mouth_opening =
                           IF a <= 0 THEN TRUE ELSE FALSE]

\* lines 180-197: mouth animation
animate(s) ==
    IF s.direction # <<0, 0>>
    THEN IF s.mouth_opening
         THEN LET a == F32(s.mouth_angle + MOUTH_SPEED)
              IN  [s EXCEPT !.mouth_angle = a,
                            !.mouth_opening =
                                IF a >= MAX_MOUTH_ANGLE THEN FALSE ELSE TRUE]
         ELSE LET a == F32(s.mouth_angle - MOUTH_SPEED)
              IN  [s EXCEPT !.mouth_angle = a,
                            !.mouth_opening =
                                IF a <= 0 THEN TRUE ELSE FALSE]
    ELSE [s EXCEPT !.mouth_angle = 0, !.mouth_opening = TRUE]

\* update that collects before it moves
update_collect_first(s) ==
    IF s.game_won THEN s
    ELSE animate(check_victory(move(collect(s))))

\* update without the early return
update_no_return(s) == animate(check_victory(collect(move(s))))

\* GameState::update
update(s) ==
    IF s.game_won THEN s ELSE animate(check_victory(collect(move(s))))

\* is_point_in_rect with the far edges excluded
is_point_in_rect_half_open(point, rect_pos, rect_size) ==
    /\ point[1] >= rect_pos[1]
    /\ point[1] < rect_pos[1] + rect_size[1]
    /\ point[2] >= rect_pos[2]
    /\ point[2] < rect_pos[2] + rect_size[2]

is_point_in_rect(point, rect_pos, rect_size) ==
    /\ point[1] >= rect_pos[1]
    /\ point[1] <= rect_pos[1] + rect_size[1]
    /\ point[2] >= rect_pos[2]
    /\ point[2] <= rect_pos[2] + rect_size[2]

---------------------------------------------------------------------------
(* Event handlers *)

KeyCodes == {"Up", "W", "Down", "S", "Left", "A", "Right", "D", "Space"}

\* key_down_event that also turns the player at once
key_down_event_turns(s, keycode) ==
    CASE keycode \in {"Up", "W"}    ->
            [s EXCEPT !.queued_direction = "Up", !.current_direction = "Up"]
      [] keycode \in {"Down", "S"}  ->
            [s EXCEPT !.queued_direction = "Down", !.current_direction = "Down"]
      [] keycode \in {"Left", "A"}  ->
            [s EXCEPT !.queued_direction = "Left", !.current_direction = "Left"]
      [] keycode \in {"Right", "D"} ->
            [s EXCEPT !.queued_direction = "Right", !.current_direction = "Right"]
      [] OTHER -> s

key_down_event(s, keycode) ==
    CASE keycode \in {"Up", "W"}    -> queue_direction(s, "Up")
      [] keycode \in {"Down", "S"}  -> queue_direction(s, "Down")
      [] keycode \in {"Left", "A"}  -> queue_direction(s, "Left")
      [] keycode \in {"Right", "D"} -> queue_direction(s, "Right")
      [] OTHER -> s

KeyStrings == {"ArrowUp", "KeyW", "ArrowDown", "KeyS", "ArrowLeft", "KeyA",
               "ArrowRight", "KeyD", "Space"}

handle_keydown(s, key_code) ==
    CASE key_code \in {"ArrowUp", "KeyW"}    -> queue_direction(s, "Up")
      [] key_code \in {"ArrowDown", "KeyS"}  -> queue_direction(s, "Down")
      [] key_code \in {"ArrowLeft", "KeyA"}  -> queue_direction(s, "Left")
      [] key_code \in {"ArrowRight", "KeyD"} -> queue_direction(s, "Right")
      [] OTHER -> s

MouseButtons == {"Left", "Right"}
\* click points: two opposite corners of the Play Again button, and the
\* points one pixel outside each of its four edges
ClickPoints == {<<300, 360>>, <<500, 410>>,
                <<299, 360>>, <<501, 410>>, <<300, 359>>, <<500, 411>>}

\* button_x = SCREEN_WIDTH * 0.5 - button_width * 0.5 = 300 and
\* button_y = SCREEN_HEIGHT * 0.6 = 360 (600 * 0.6f32 rounds to 360.0)
mouse_button_down_event(s, button, x, y) ==
    LET button_width  == 200
        button_height == 50
        button_x      == SCREEN_WIDTH \div 2 - button_width \div 2
        button_y      == (SCREEN_HEIGHT * 6) \div 10
    IN  IF /\ s.game_won
           /\ button = "Left"
           /\ is_point_in_rect(<<x, y>>, <<button_x, button_y>>,
                               <<button_width, button_height>>)
        THEN reset(s)
        ELSE s

---------------------------------------------------------------------------
(* Start states.  A game takes some two thousand ticks to win, so besides  *)
(* the state new() builds, exploration also starts from two states of one  *)
(* fixed game, each computed by running update on new() under a script of  *)
(* key presses: a sweep of the whole board, row by row.                    *)

\* n more frames (a frame on a won game changes nothing)
RECURSIVE run_ticks(_, _)
run_ticks(s, n) ==
    IF n = 0 \/ s.game_won THEN s ELSE run_ticks(update(s), n - 1)

\* frames until `cells` cells are crossed (halved, to keep evaluation shallow)
RECURSIVE run_cells(_, _)
run_cells(s, cells) ==
    IF cells = 0 \/ s.game_won THEN s
    ELSE IF cells = 1 THEN run_ticks(s, CELL_SIZE \div PACMAN_SPEED)
    ELSE run_cells(run_cells(s, cells \div 2), cells - cells \div 2)

\* press the key for direction d, then run until `cells` cells are crossed
run_segment(s, d, cells) == run_cells(queue_direction(s, d), cells)

\* the script's segments lo..hi in order; the script ends if the game is won
RECURSIVE play(_, _, _, _)
play(s, script, lo, hi) ==
    IF lo > hi \/ s.game_won THEN s
    ELSE IF lo = hi THEN run_segment(s, script[lo][1], script[lo][2])
    ELSE play(play(s, script, lo, (lo + hi) \div 2),
              script, (lo + hi) \div 2 + 1, hi)

StartRow == GRID_SIZE \div 2
LastCell == GRID_SIZE - 2

\* up the first column, then along the first row
OpeningScript == << <<"Up", StartRow - 1>>, <<"Right", LastCell - 1>> >>

\* rows 2..StartRow, columns 2..LastCell, alternating direction
UpperScript ==
    [i \in 1..(2 * (StartRow - 1)) |->
        LET row == 2 + (i - 1) \div 2
        IN  IF i % 2 = 1 THEN <<"Down", 1>>
            ELSE <<IF row % 2 = 0 THEN "Left" ELSE "Right", LastCell - 2>>]

\* back to the first column, then rows StartRow+1..LastCell in full, the
\* last one stopping short of its final LastDots dots
LowerScript ==
    [i \in 1..(2 * (LastCell - StartRow)) |->
        LET row == StartRow + 1 + (i - 1) \div 2
        IN  IF i % 2 = 1 THEN <<"Down", 1>>
            ELSE <<IF row % 2 = 0 THEN "Left" ELSE "Right",
                   IF row = LastCell THEN LastCell - 1 - LastDots
                   ELSE LastCell - 1>>]

\* the game at the far end of the first row
CornerState == play(new, OpeningScript, 1, Len(OpeningScript))

LateScript == UpperScript \o << <<"Left", 1>> >> \o LowerScript

\* the game with LastDots dots left
LateState == play(CornerState, LateScript, 1, Len(LateScript))

StartStates == {new, CornerState, LateState}

---------------------------------------------------------------------------
(* The host: it calls one handler at a time *)

Init ==
    /\ gs \in StartStates
    /\ pre = gs
    /\ event = "start"
    /\ ticks = 0
    /\ waited = 0

\* EventHandler::update and Game::update: one frame
update_step ==
    /\ ticks < MaxTicks
    /\ gs' = update(gs)
    /\ pre' = gs
    /\ event' = "update"
    /\ ticks' = ticks + 1

key_down_step(keycode) ==
    /\ gs' = key_down_event(gs, keycode)
    /\ pre' = gs
    /\ event' = "key_down_event"
    /\ UNCHANGED ticks

handle_keydown_step(key_code) ==
    /\ gs' = handle_keydown(gs, key_code)
    /\ pre' = gs
    /\ event' = "handle_keydown"
    /\ UNCHANGED ticks

mouse_down_step(button, point) ==
    /\ gs' = mouse_button_down_event(gs, button, point[1], point[2])
    /\ pre' = gs
    /\ event' = "mouse_button_down_event"
    /\ UNCHANGED ticks

Update == update_step /\ UNCHANGED waited

KeyDown ==
    \E keycode \in KeyCodes : key_down_step(keycode) /\ UNCHANGED waited

HandleKeydown ==
    \E key_code \in KeyStrings :
        handle_keydown_step(key_code) /\ UNCHANGED waited

MouseDown ==
    \E button \in MouseButtons, point \in ClickPoints :
        mouse_down_step(button, point) /\ UNCHANGED waited

\* the desktop host (main.rs): frames, key presses and mouse clicks
Next == Update \/ KeyDown \/ MouseDown

Spec == Init /\ [][Next]_vars

\* the browser host (lib.rs): frames and key presses
NextWeb == Update \/ HandleKeydown

SpecWeb == Init /\ [][NextWeb]_vars

\* both key handlers side by side, to compare them on the same states
NextKeys == Update \/ KeyDown \/ HandleKeydown

SpecKeys == Init /\ [][NextKeys]_vars

\* The desktop host again, now counting in `waited` the frames since the
\* last key press that wrote queued_direction: a frame counts if it is
\* entered with the game not won and a direction queued; a key press that
\* queues a direction, and a click that resets, start the count afresh.
TimedUpdate ==
    /\ update_step
    /\ waited' = IF ~gs.game_won /\ gs.queued_direction # None
                 THEN waited + 1 ELSE waited

TimedKeyDown ==
    \E keycode \in KeyCodes :
        /\ key_down_step(keycode)
        /\ waited' = IF keycode = "Space" THEN waited ELSE 0

TimedMouseDown ==
    \E button \in MouseButtons, point \in ClickPoints :
        /\ mouse_down_step(button, point)
        /\ waited' = IF gs' = gs THEN waited ELSE 0

NextTimed == TimedUpdate \/ TimedKeyDown \/ TimedMouseDown

SpecTimed == Init /\ [][NextTimed]_vars

---------------------------------------------------------------------------
(* Properties *)

\* the last handler was a tick, entered with the game not won
LiveTick == event = "update" /\ ~pre.game_won

\* the last handler was a click that called reset()
ResetClick == event = "mouse_button_down_event" /\ pre.game_won /\ ~gs.game_won

\* C1: a tick never lowers the score, and the score is lower after a handler
\* than before it only when that handler was the click that resets the game
\* (which sets it to 0).
C1_ScoreNonDecreasing ==
    /\ event = "update" => gs.score >= pre.score
    /\ gs.score < pre.score => ResetClick /\ gs.score = 0

\* C1 witness: a tick that raised the score
C1_Witness == event = "update" /\ gs.score > pre.score

\* C2 as stated: after a tick entered with the game not won, a dot that was
\* present is gone if and only if its distance to the position the player
\* had BEFORE the tick is below CELL_SIZE / 2.
C2_PreTickDistance ==
    LiveTick =>
        \A dot \in pre.dots :
            (dot \notin gs.dots) <=>
                4 * ( (dot[1] - pre.pos[1]) * (dot[1] - pre.pos[1])
                    + (dot[2] - pre.pos[2]) * (dot[2] - pre.pos[2]) )
                    < CELL_SIZE * CELL_SIZE

\* C2 amended: after a tick entered with the game not won, a dot that was
\* present is gone if and only if its distance to the position the player
\* has AFTER the tick's direction resolution, movement and clamping is below
\* CELL_SIZE / 2; and no dot appears in a tick.
C2_PostTickDistance ==
    LiveTick =>
        /\ gs.dots \subseteq pre.dots
        /\ \A dot \in pre.dots :
               (dot \notin gs.dots) <=>
                   4 * ( (dot[1] - gs.pos[1]) * (dot[1] - gs.pos[1])
                       + (dot[2] - gs.pos[2]) * (dot[2] - gs.pos[2]) )
                       < CELL_SIZE * CELL_SIZE

\* C2 witness: a tick removed a dot that was exactly CELL_SIZE / 2 away from
\* the player's position before the tick
C2_Witness ==
    /\ LiveTick
    /\ \E dot \in pre.dots \ gs.dots :
           4 * ( (dot[1] - pre.pos[1]) * (dot[1] - pre.pos[1])
               + (dot[2] - pre.pos[2]) * (dot[2] - pre.pos[2]) )
               = CELL_SIZE * CELL_SIZE

\* C3: a tick entered with game_won set leaves every field of the game
\* state as it was, game_won included.
C3_WonTickIsNoOp ==
    (event = "update" /\ pre.game_won) =>
        /\ gs.pos = pre.pos
        /\ gs.direction = pre.direction
        /\ gs.dots = pre.dots
        /\ gs.score = pre.score
        /\ gs.mouth_angle = pre.mouth_angle
        /\ gs.mouth_opening = pre.mouth_opening
        /\ gs.queued_direction = pre.queued_direction
        /\ gs.current_direction = pre.current_direction
        /\ gs.game_won
        /\ gs = pre

\* C3 witness: a tick ran on a won game whose player has a direction and a
\* queued key, so that a tick not returning early would have moved it
C3_Witness ==
    /\ event = "update"
    /\ pre.game_won
    /\ pre.direction # <<0, 0>>
    /\ pre.queued_direction # None

\* C4: a tick changes current_direction or the movement vector only if the
\* position at the start of the tick was grid-aligned (on both axes the
\* fraction of position / CELL_SIZE is below 0.1 or above 0.9); a key press
\* changes neither.
C4_TurnOnlyWhenAligned ==
    /\ ( /\ event = "update"
         /\ \/ gs.current_direction # pre.current_direction
            \/ gs.direction # pre.direction )
       => \A i \in {1, 2} :
              \/ 10 * (pre.pos[i] % CELL_SIZE) < CELL_SIZE
              \/ 10 * (pre.pos[i] % CELL_SIZE) > 9 * CELL_SIZE
    /\ event = "key_down_event"
       => /\ gs.current_direction = pre.current_direction
          /\ gs.direction = pre.direction

\* C4 witness: a tick turned a moving player into another direction
C4_Witness ==
    /\ event = "update"
    /\ pre.current_direction # None
    /\ gs.current_direction # pre.current_direction
    /\ gs.direction # pre.direction

\* C5: reset() applied to any reachable state, and so the state after any
\* click that resets, has the full dot grid, score 0, the player at
\* (CELL_SIZE, GRID_SIZE * CELL_SIZE / 2) and game_won false.
C5_ResetRestores ==
    LET Restored(r) ==
            /\ r.dots = {<<x * CELL_SIZE, y * CELL_SIZE>> :
                             x \in 1..(GRID_SIZE - 2), y \in 1..(GRID_SIZE - 2)}
            /\ r.score = 0
            /\ r.pos = <<CELL_SIZE, (GRID_SIZE * CELL_SIZE) \div 2>>
            /\ ~r.game_won
    IN  /\ Restored(reset(gs))
        /\ ResetClick => Restored(gs)

\* C5 witness: a click has reset a won game
C5_Witness ==
    /\ ResetClick
    /\ pre.dots = {}
    /\ pre.score > 0
    /\ pre.pos # gs.pos

\* C6: game_won is set exactly when no dot is left.
C6_WonIffNoDots == gs.game_won <=> gs.dots = {}

\* C6 witness: the tick that removed the last dot has set the flag
C6_Witness ==
    /\ LiveTick
    /\ Cardinality(pre.dots) = 1
    /\ gs.dots = {}
    /\ gs.game_won

\* C7: the score is 10 for each dot of the full grid that is no longer on
\* the board, and a handler other than the resetting click never brings a
\* dot back.
C7_ScoreCountsDots ==
    /\ gs.score = 10 * ((GRID_SIZE - 2) * (GRID_SIZE - 2) - Cardinality(gs.dots))
    /\ ResetClick \/ gs.dots \subseteq pre.dots

\* C7 witness: a tick removed a dot
C7_Witness ==
    /\ LiveTick
    /\ Cardinality(pre.dots \ gs.dots) = 1
    /\ gs.score = pre.score + 10

\* C8: both coordinates of the player lie in
\* [CELL_SIZE, CELL_SIZE * (GRID_SIZE - 1)] = [30, 570].
C8_PositionInBounds ==
    /\ CELL_SIZE = 30 /\ CELL_SIZE * (GRID_SIZE - 1) = 570
    /\ \A i \in {1, 2} : gs.pos[i] >= 30 /\ gs.pos[i] <= 570

\* C8 witness: a tick moved the player towards a wall it already touched,
\* and the clamp held it there
C8_Witness ==
    /\ LiveTick
    /\ gs.pos = pre.pos
    /\ \/ gs.pos[1] = 30 /\ gs.direction = <<-1, 0>>
       \/ gs.pos[2] = 570 /\ gs.direction = <<0, 1>>

\* C9 as stated: after a tick entered with the game not won that left the
\* position where it was, the mouth angle is 0; and a tick changes the mouth
\* angle only if it changes the position.
C9_StationaryMouthClosed ==
    LiveTick =>
        /\ gs.pos = pre.pos => gs.mouth_angle = 0
        /\ gs.mouth_angle # pre.mouth_angle => gs.pos # pre.pos

\* C10 as stated: the mouth angle lies between 0 and MAX_MOUTH_ANGLE; the
\* tick in which an opening mouth reaches the maximum clears mouth_opening
\* and the tick in which a closing mouth reaches 0 sets it.
C10_MouthWithinBounds ==
    /\ gs.mouth_angle >= 0
    /\ gs.mouth_angle <= MAX_MOUTH_ANGLE
    /\ (LiveTick /\ pre.mouth_opening /\ gs.mouth_angle = MAX_MOUTH_ANGLE)
           => ~gs.mouth_opening
    /\ (LiveTick /\ ~pre.mouth_opening /\ gs.mouth_angle = 0)
           => gs.mouth_opening

\* C11: a direction queued by a key press is applied within
\* CELL_SIZE / PACMAN_SPEED = 6 ticks entered with the game not won, unless
\* another key press or a reset comes first: it is never still queued after
\* more than 5 such ticks.  A tick that finds it queued either applies it
\* (current_direction becomes it and the queue is cleared) or leaves both
\* current_direction and the queue as they were.
C11_QueuedAppliedWithinSixTicks ==
    /\ CELL_SIZE \div PACMAN_SPEED = 6
    /\ waited <= 6
    /\ (gs.queued_direction # None /\ ~gs.game_won) => waited <= 5
    /\ (LiveTick /\ pre.queued_direction # None) =>
           \/ /\ gs.current_direction = pre.queued_direction
              /\ gs.queued_direction = None
           \/ /\ gs.current_direction = pre.current_direction
              /\ gs.queued_direction = pre.queued_direction

\* C11 witness: the sixth tick after a key press applied the direction, a
\* turn away from the direction held until then
C11_Witness ==
    /\ LiveTick
    /\ waited = 6
    /\ pre.queued_direction # None
    /\ pre.current_direction # None
    /\ pre.current_direction # pre.queued_direction
    /\ gs.current_direction = pre.queued_direction
    /\ gs.queued_direction = None

\* C12: a key press writes nothing but queued_direction.  In every reachable
\* state, key_down_event with an arrow key or W/A/S/D, and handle_keydown
\* with the matching browser code, return the state with queued_direction
\* set to that key's direction (whatever was queued before) and all else as
\* it was; any other key returns the state as it was.  So after either
\* handler every field but queued_direction has its old value.
C12_KeyPressOnlyQueues ==
    LET DirectionOf(k) ==
            CASE k \in {"Up", "W", "ArrowUp", "KeyW"}          -> "Up"
              [] k \in {"Down", "S", "ArrowDown", "KeyS"}      -> "Down"
              [] k \in {"Left", "A", "ArrowLeft", "KeyA"}      -> "Left"
              [] k \in {"Right", "D", "ArrowRight", "KeyD"}    -> "Right"
              [] OTHER -> None
        Expected(k) ==
            IF DirectionOf(k) = None THEN gs
            ELSE [ pos               |-> gs.pos,
                   direction         |-> gs.direction,
                   size              |-> gs.size,
                   mouth_angle       |-> gs.mouth_angle,
                   mouth_opening     |-> gs.mouth_opening,
                   dots              |-> gs.dots,
                   score             |-> gs.score,
                   queued_direction  |-> DirectionOf(k),
                   current_direction |-> gs.current_direction,
                   game_won          |-> gs.game_won ]
    IN  /\ \A k \in KeyCodes : key_down_event(gs, k) = Expected(k)
        /\ \A k \in KeyStrings : handle_keydown(gs, k) = Expected(k)
        /\ event \in {"key_down_event", "handle_keydown"} =>
               /\ gs.pos = pre.pos
               /\ gs.direction = pre.direction
               /\ gs.current_direction = pre.current_direction
               /\ gs.dots = pre.dots
               /\ gs.score = pre.score
               /\ gs.mouth_angle = pre.mouth_angle
               /\ gs.mouth_opening = pre.mouth_opening
               /\ gs.game_won = pre.game_won
               /\ gs.queued_direction \in Directions \/ gs = pre

\* C12 witness: the browser handler replaced a direction that was queued,
\* and not yet applied, while the player was moving
C12_Witness ==
    /\ event = "handle_keydown"
    /\ pre.queued_direction # None
    /\ gs.queued_direction # pre.queued_direction
    /\ gs.queued_direction # None
    /\ gs.direction # <<0, 0>>

\* C13: in every reachable state a mouse-button event returns the state of a
\* fresh game if game_won is set, the button is the left one and the point
\* lies in [300, 500] x [360, 410], edges included, and returns the state as
\* it was otherwise.  So a click that changes the state was made on a won
\* game, with no dot left.
C13_ClickResetsOnlyOnButton ==
    /\ \A button \in {"Left", "Right", "Middle"},
          x \in {299, 300, 400, 500, 501},
          y \in {359, 360, 385, 410, 411} :
            LET after == mouse_button_down_event(gs, button, x, y)
                hit   == /\ gs.game_won
                         /\ button = "Left"
                         /\ 300 <= x /\ x <= 500
                         /\ 360 <= y /\ y <= 410
            IN  IF hit
                THEN /\ ~after.game_won
                     /\ after.score = 0
                     /\ Cardinality(after.dots) = (GRID_SIZE - 2) * (GRID_SIZE - 2)
                ELSE after = gs
    /\ (event = "mouse_button_down_event" /\ gs # pre) =>
           /\ pre.game_won
           /\ pre.dots = {}
           /\ ~gs.game_won
           /\ gs.score = 0

\* C13 witness: a click has reset a game that was won with the full score
C13_Witness ==
    /\ event = "mouse_button_down_event"
    /\ gs # pre
    /\ pre.game_won
    /\ pre.score = 10 * (GRID_SIZE - 2) * (GRID_SIZE - 2)
    /\ gs.score = 0

\* C14: a tick entered with the game not won keeps exactly the dots whose
\* distance to the player's position after the tick is at least
\* 15 = CELL_SIZE / 2, a dot at exactly 15 among them, and removes the
\* others; so after it every dot on the board is at least 15 from the player.
C14_RemovedAreStrictlyWithinReach ==
    LET Dist2(dot) == (dot[1] - gs.pos[1]) * (dot[1] - gs.pos[1])
                    + (dot[2] - gs.pos[2]) * (dot[2] - gs.pos[2])
    IN  /\ 2 * 15 = CELL_SIZE
        /\ LiveTick =>
               /\ gs.dots = {dot \in pre.dots : Dist2(dot) >= 15 * 15}
               /\ \A dot \in gs.dots : ~(Dist2(dot) < 15 * 15)

\* C14 witness: after a tick a dot lies exactly 15 from the player, and is
\* still on the board
C14_Witness ==
    /\ LiveTick
    /\ gs.pos # pre.pos
    /\ \E dot \in gs.dots :
           (dot[1] - gs.pos[1]) * (dot[1] - gs.pos[1])
         + (dot[2] - gs.pos[2]) * (dot[2] - gs.pos[2]) = 15 * 15

\* C15: once current_direction is set it stays set, and the movement vector
\* stays a unit axis vector, through every handler but the click that
\* resets, which unsets the one and zeroes the other; whenever
\* current_direction is set the movement vector is a unit axis vector.
C15_NeverStoppedByInput ==
    LET UnitVectors == {<<0, -1>>, <<0, 1>>, <<-1, 0>>, <<1, 0>>}
    IN  /\ gs.current_direction # None => gs.direction \in UnitVectors
        /\ (pre.current_direction # None /\ ~ResetClick) =>
               /\ gs.current_direction # None
               /\ gs.direction \in UnitVectors
        /\ ResetClick =>
               /\ gs.current_direction = None
               /\ gs.direction = <<0, 0>>

\* C15 witness: a tick started on a grid intersection with nothing queued,
\* and the player moved on in the direction it had
C15_Witness ==
    /\ LiveTick
    /\ pre.current_direction # None
    /\ pre.queued_direction = None
    /\ pre.pos[1] % CELL_SIZE = 0
    /\ pre.pos[2] % CELL_SIZE = 0
    /\ gs.current_direction = pre.current_direction
    /\ gs.pos # pre.pos

\* C16: a tick removes at most one dot, and changes the score by 0 or 10.
C16_AtMostOneDotPerTick ==
    event = "update" =>
        /\ Cardinality(pre.dots \ gs.dots) <= 1
        /\ gs.score - pre.score \in {0, 10}

\* C16 witness: a tick removed one dot and left its neighbour in the
\* player's line of travel, one cell further on
C16_Witness ==
    /\ LiveTick
    /\ \E dot \in pre.dots \ gs.dots :
           <<dot[1] + CELL_SIZE * gs.direction[1],
             dot[2] + CELL_SIZE * gs.direction[2]>> \in gs.dots
    /\ gs.score = pre.score + 10

\* C17: both coordinates of the player are multiples of PACMAN_SPEED = 5 and
\* at least one is a multiple of CELL_SIZE = 30; the position is
\* grid-aligned exactly when both are multiples of 30; and a tick changes
\* current_direction only if it started with both multiples of 30.
C17_PlayerOnGridLines ==
    /\ PACMAN_SPEED = 5 /\ CELL_SIZE = 30
    /\ \A i \in {1, 2} : gs.pos[i] % 5 = 0
    /\ \E i \in {1, 2} : gs.pos[i] % 30 = 0
    /\ is_aligned_with_grid(gs.pos) <=> \A i \in {1, 2} : gs.pos[i] % 30 = 0
    /\ (event = "update" /\ gs.current_direction # pre.current_direction) =>
           \A i \in {1, 2} : pre.pos[i] % 30 = 0

\* C17 witness: the player is between two intersections with a turn queued
C17_Witness ==
    /\ LiveTick
    /\ \E i \in {1, 2} : gs.pos[i] % 30 # 0
    /\ gs.queued_direction # None
    /\ gs.current_direction # None
    /\ to_vec2(gs.queued_direction)[1] # gs.direction[1]
    /\ to_vec2(gs.queued_direction)[1] # -gs.direction[1]

\* C18: reset() applied to any reachable state gives the state new() builds,
\* field for field: besides dots, score, position and flag, the movement
\* vector is zero, the mouth angle 0 and opening, and neither a queued nor a
\* current direction is set.  So is the state after a click that resets,
\* and a tick on it leaves the player at the start position.
C18_ResetEqualsNew ==
    LET Fresh(r) ==
            /\ r = new
            /\ r.direction = <<0, 0>>
            /\ r.mouth_angle = 0
            /\ r.mouth_opening
            /\ r.queued_direction = None
            /\ r.current_direction = None
    IN  /\ Fresh(reset(gs))
        /\ ResetClick => Fresh(gs)
        /\ (event = "update" /\ pre = new) =>
               /\ gs.pos = <<CELL_SIZE, (GRID_SIZE * CELL_SIZE) \div 2>>
               /\ gs.current_direction = None

\* C18 witness: a click has reset a won game in which a key had been pressed
\* and not yet applied
C18_Witness ==
    /\ ResetClick
    /\ pre.queued_direction # None
    /\ pre.queued_direction # pre.current_direction
    /\ gs.queued_direction = None

\* C19: a tick on the state of a fresh game, with no key pressed, leaves the
\* player at (30, 300), removes the dot there and makes the score 10, and
\* changes nothing else; a tick on the state so reached changes nothing.
C19_FirstTickEatsStartDot ==
    LET AfterFirst ==
            [ pos               |-> <<30, 300>>,
              direction         |-> <<0, 0>>,
              size              |-> 24,
              mouth_angle       |-> 0,
              mouth_opening     |-> TRUE,
              dots              |-> {<<x * 30, y * 30>> : x \in 1..18, y \in 1..18}
                                        \ {<<30, 300>>},
              score             |-> 10,
              queued_direction  |-> None,
              current_direction |-> None,
              game_won          |-> FALSE ]
    IN  /\ (event = "update" /\ pre = new) => gs = AfterFirst
        /\ (event = "update" /\ pre = AfterFirst) => gs = AfterFirst

\* C19 witness: a second tick without input has followed the first
C19_Witness ==
    /\ event = "update"
    /\ pre = gs
    /\ gs.score = 10
    /\ gs.current_direction = None
    /\ gs.queued_direction = None
    /\ <<30, 300>> \notin gs.dots
    /\ ~gs.game_won

====
